---------------------------- MODULE Spec2Model ----------------------------
(***************************************************************************)
(* A model of wabt-sys/wabt_shim.cc: the extern "C" boundary between a     *)
(* host and the wabt interpreter.                                          *)
(*                                                                         *)
(* The shim's own code (handle creation and destruction, the typed-value   *)
(* codec, the argument marshalling loop, the result accessors) is modelled *)
(* from the source.  The engine behind it (wabt::interp::Environment,      *)
(* ReadBinaryInterp, Executor::RunExportByName) is not part of the shim;   *)
(* the operators that stand for it are marked as modelled from the         *)
(* specification.                                                          *)
(*                                                                         *)
(* Memory is modelled at the byte level where the code copies union        *)
(* members: a union payload is a sequence of UnionBytes bytes, and a       *)
(* 32-bit member covers its first four bytes.  A local declared without an *)
(* initialiser holds an indeterminate value, which the action that runs    *)
(* the function draws from a set of samples and passes in explicitly.      *)
(***************************************************************************)
EXTENDS Integers, Sequences, FiniteSets, TLC

(***************************************************************************)
(* enum ValueType and struct TypedValue of the boundary                    *)
(***************************************************************************)
I32 == -1
I64 == -2
F32 == -3
F64 == -4

ValueType == {I32, I64, F32, F64}

\* sizeof the payload union: its widest members are the 64-bit ones.
UnionBytes == 8

\* wabt::Type, the kind field of wabt::interp::TypedValue.  The shim names
\* four of its enumerators; the engine has further ones.
WabtNumeric == {"I32", "I64", "F32", "F64"}
WabtOther == {"Anyfunc", "Func", "Void", "Any"}
WabtType == WabtNumeric \cup WabtOther

\* Bytes a kind's payload occupies in the union.
Width(type) == IF type \in {"I32", "F32"} THEN 4 ELSE 8

\* The bits of a value that belong to its kind.
PayloadBits(v) == SubSeq(v.value, 1, Width(v.type))

\* dst.value.<member> = src.value.<member> for a member of `width` bytes:
\* the member's bytes are copied, the rest of dst's union is left as it was.
AssignMember(dst, width, src) ==
    SubSeq(src, 1, width) \o SubSeq(dst, width + 1, UnionBytes)

\* `val` is the content of the uninitialised local of the same name.
convert_typed_value_ffi_to_wabt(ffi, val) ==
    CASE ffi.type = I32 ->
           [type |-> "I32", value |-> AssignMember(val.value, 4, ffi.value)]
      [] ffi.type = I64 ->
           [type |-> "I64", value |-> AssignMember(val.value, 8, ffi.value)]
      [] ffi.type = F32 ->
           [type |-> "F32", value |-> AssignMember(val.value, 4, ffi.value)]
      [] ffi.type = F64 ->
           [type |-> "F64", value |-> AssignMember(val.value, 8, ffi.value)]
      [] OTHER -> val

\* A copy-and-paste slip: the I64 case copies the 32-bit member.
wabt_to_ffi_narrow(wabt, val) ==
    CASE wabt.type = "I32" ->
           [aborted |-> FALSE,
            val |-> [type |-> I32, value |-> AssignMember(val.value, 4, wabt.value)]]
      [] wabt.type = "I64" ->
           [aborted |-> FALSE,
            val |-> [type |-> I64, value |-> AssignMember(val.value, 4, wabt.value)]]
      [] wabt.type = "F32" ->
           [aborted |-> FALSE,
            val |-> [type |-> F32, value |-> AssignMember(val.value, 4, wabt.value)]]
      [] wabt.type = "F64" ->
           [aborted |-> FALSE,
            val |-> [type |-> F64, value |-> AssignMember(val.value, 8, wabt.value)]]
      [] OTHER -> [aborted |-> TRUE, val |-> val]

\* The default case compiled away: the local is returned as it is.
wabt_to_ffi_no_default(wabt, val) ==
    CASE wabt.type = "I32" ->
           [aborted |-> FALSE,
            val |-> [type |-> I32, value |-> AssignMember(val.value, 4, wabt.value)]]
      [] wabt.type = "I64" ->
           [aborted |-> FALSE,
            val |-> [type |-> I64, value |-> AssignMember(val.value, 8, wabt.value)]]
      [] wabt.type = "F32" ->
           [aborted |-> FALSE,
            val |-> [type |-> F32, value |-> AssignMember(val.value, 4, wabt.value)]]
      [] wabt.type = "F64" ->
           [aborted |-> FALSE,
            val |-> [type |-> F64, value |-> AssignMember(val.value, 8, wabt.value)]]
      [] OTHER -> [aborted |-> FALSE, val |-> val]

\* `val` is the content of the uninitialised local of the same name.  The
\* result says whether assert(0) stopped the process; if not, .val is the
\* value returned.
convert_typed_value_wabt_to_ffi(wabt, val) ==
    CASE wabt.type = "I32" ->
           [aborted |-> FALSE,
            val |-> [type |-> I32, value |-> AssignMember(val.value, 4, wabt.value)]]
      [] wabt.type = "I64" ->
           [aborted |-> FALSE,
            val |-> [type |-> I64, value |-> AssignMember(val.value, 8, wabt.value)]]
      [] wabt.type = "F32" ->
           [aborted |-> FALSE,
            val |-> [type |-> F32, value |-> AssignMember(val.value, 4, wabt.value)]]
      [] wabt.type = "F64" ->
           [aborted |-> FALSE,
            val |-> [type |-> F64, value |-> AssignMember(val.value, 8, wabt.value)]]
      [] OTHER -> [aborted |-> TRUE, val |-> val]

(***************************************************************************)
(* Sample bit patterns, least significant byte first                       *)
(***************************************************************************)
Bits_Two == <<2, 0, 0, 0, 0, 0, 0, 0>>
Bits_Three == <<3, 0, 0, 0, 0, 0, 0, 0>>
Bits_Max32 == <<255, 255, 255, 255, 0, 0, 0, 0>>
\* 0x7FA00001 in the low word: a signalling F32 NaN with a payload; the high
\* word is non-zero.
Bits_NaN32 == <<1, 0, 160, 127, 17, 34, 51, 68>>
\* 0x7FF0000000000001: a signalling F64 NaN with a payload.
Bits_NaN64 == <<1, 0, 0, 0, 0, 0, 240, 127>>
Bits_Ones == <<255, 255, 255, 255, 255, 255, 255, 255>>
Bits_Stale == <<170, 170, 170, 170, 170, 170, 170, 170>>
Bits_Zero == <<0, 0, 0, 0, 0, 0, 0, 0>>

PayloadSamples ==
    {Bits_Two, Bits_Three, Bits_Max32, Bits_NaN32, Bits_NaN64, Bits_Ones}

\* What an uninitialised boundary TypedValue may hold.
FfiStale ==
    { [type |-> t, value |-> b] : t \in {I32, 0}, b \in {Bits_Stale, Bits_Zero} }

\* What an uninitialised wabt::interp::TypedValue may hold: whatever the
\* storage of the local held before the call, a numeric kind or not, zero
\* bytes or not.
WabtStale ==
    { [type |-> t, value |-> b] : t \in {"I32", "Any"}, b \in {Bits_Stale, Bits_Zero} }

NoFfi == [type |-> 0, value |-> <<>>]
NoWabt == [type |-> "none", value |-> <<>>]

(***************************************************************************)
(* The engine behind the boundary, modelled from the specification         *)
(***************************************************************************)
\* A binary module, in 4-byte words: the magic, the version, the body.
CalcWasm == <<"asm", "v1", "calc">>
BadMagic == <<"elf", "v1", "calc">>
Binaries == {CalcWasm, BadMagic}

\* The export table of each module body the decoder accepts.
Bodies ==
    [calc |->
       [add   |-> [params |-> <<"I32", "I32">>, code |-> "i32.add"],
        trap  |-> [params |-> <<>>,             code |-> "unreachable"]]]

ExportNames == {"add", "trap", "nope"}

\* The first `size` bytes of `data` are a complete, valid module.
WellFormed(data, size) ==
    /\ size = 4 * Len(data)
    /\ data[1] = "asm"
    /\ data[2] = "v1"
    /\ data[3] \in DOMAIN Bodies

\* ReadBinaryInterp: on success the module is registered in `env` and handed
\* out through out_module; on failure the environment is left as it was.
ReadBinaryInterp(mods, env, data, size, options, m) ==
    IF WellFormed(data, size)
    THEN [result |-> "Ok", out_module |-> m,
          modules |-> mods @@ (m :> [env |-> env, body |-> data[3]])]
    ELSE [result |-> "Error", out_module |-> 0, modules |-> mods]

\* 32-bit addition on little-endian bytes.
Add32(a, b) ==
    LET s1 == a[1] + b[1]
        s2 == a[2] + b[2] + (s1 \div 256)
        s3 == a[3] + b[3] + (s2 \div 256)
        s4 == a[4] + b[4] + (s3 \div 256)
    IN  <<s1 % 256, s2 % 256, s3 % 256, s4 % 256>>

ArgTypes(args) == [i \in 1..Len(args) |-> args[i].type]

\* Executor::RunExportByName: the export is looked up by name, the arguments
\* are checked against its signature, and the function runs to completion or
\* to a trap.
RunExportByName(body, name, args) ==
    IF name \notin DOMAIN Bodies[body]
    THEN [result |-> "UnknownExport", values |-> <<>>]
    ELSE LET f == Bodies[body][name] IN
         IF ArgTypes(args) # f.params
         THEN [result |-> "ArgumentTypeMismatch", values |-> <<>>]
         ELSE IF f.code = "i32.add"
              THEN [result |-> "Ok",
                    values |-> <<[type |-> "I32",
                                  value |-> Add32(args[1].value, args[2].value)
                                              \o <<0, 0, 0, 0>>]>>]
              ELSE [result |-> "TrapUnreachable", values |-> <<>>]

\* ~Environment: the modules the environment owns go with it.
DeleteEnvironment(mods, env) ==
    [m \in {x \in DOMAIN mods : mods[x].env # env} |-> mods[m]]

(***************************************************************************)
(* Bounds                                                                  *)
(***************************************************************************)
MaxEnvs == 2
MaxModules == 2
MaxExecutors == 1
MaxResults == 2

\* The width in bits of `int`, scaled down from 32 so that the marshalling
\* loop can be run past INT_MAX; size_t is twice as wide, as 64 is to 32.
IntWidth == 3
SizeWidth == 2 * IntWidth
INT_MAX == 2 ^ (IntWidth - 1) - 1
INT_MIN == 0 - 2 ^ (IntWidth - 1)
MaxArgsLen == INT_MAX + 2

NULL == 0
EnvIds == 1..MaxEnvs
ModuleIds == 1..MaxModules
ExecutorIds == 1..MaxExecutors
ResultIds == 1..MaxResults

Remove(f, h) == [x \in DOMAIN f \ {h} |-> f[x]]

(***************************************************************************)
(* State                                                                   *)
(***************************************************************************)
VARIABLES
    envs,       \* the live Environment handles
    modules,    \* live DefinedModule handle -> [env, body]
    executors,  \* live Executor handle -> [env, stale]; stale records that
                \* the environment behind env_ has been deleted since
    results,    \* live ExecResult handle -> [result, values]
    origin,     \* live ExecResult handle -> the call that made it
    last,       \* the latest boundary call: its arguments and what it returned
    fault,      \* "none", or how the process ended: "bad_alloc", "abort"
    cpc, cin, cffi, cout    \* the codec applied on its own

hvars == <<envs, modules, executors, results, origin, last, fault>>
cvars == <<cpc, cin, cffi, cout>>
vars == <<envs, modules, executors, results, origin, last, fault, cpc, cin, cffi, cout>>

NoCall ==
    [op |-> "none", h |-> NULL, ret |-> NULL, data |-> <<>>, n |-> 0,
     args |-> <<>>, passed |-> <<>>, code |-> "none", val |-> NoFfi]

Call(op) == [NoCall EXCEPT !.op = op]

Init ==
    /\ envs = {}
    /\ modules = <<>>
    /\ executors = <<>>
    /\ results = <<>>
    /\ origin = <<>>
    /\ last = NoCall
    /\ fault = "none"
    /\ cpc = "idle"
    /\ cin = NoWabt
    /\ cffi = NoFfi
    /\ cout = NoWabt

(***************************************************************************)
(* The codec on its own                                                    *)
(***************************************************************************)
\* encode: convert_typed_value_wabt_to_ffi applied to an engine value.
CodecEncode ==
    /\ cpc = "idle"
    /\ \E t \in WabtType, b \in PayloadSamples, u \in FfiStale :
         LET v == [type |-> t, value |-> b]
             r == convert_typed_value_wabt_to_ffi(v, u)
         IN  /\ cin' = v
             /\ cffi' = IF r.aborted THEN NoFfi ELSE r.val
             /\ cpc' = IF r.aborted THEN "aborted" ELSE "encoded"
             /\ cout' = NoWabt
    /\ UNCHANGED hvars

\* decode: convert_typed_value_ffi_to_wabt applied to what encode returned.
CodecDecode ==
    /\ cpc = "encoded"
    /\ \E u \in WabtStale :
         /\ cout' = convert_typed_value_ffi_to_wabt(cffi, u)
         /\ cpc' = "decoded"
         /\ UNCHANGED <<cin, cffi>>
    /\ UNCHANGED hvars

CodecNext == CodecEncode \/ CodecDecode

CodecSpec == Init /\ [][CodecNext]_vars

(***************************************************************************)
(* The boundary functions                                                  *)
(***************************************************************************)
\* operator new failed: std::bad_alloc leaves the extern "C" function, which
\* has no handler, and the process ends.
Throw(op) ==
    /\ fault' = "bad_alloc"
    /\ last' = Call(op)
    /\ UNCHANGED <<envs, modules, executors, results, origin>>

wabt_interp_create_env ==
    /\ fault = "none"
    /\ \/ \E e \in EnvIds \ envs :
            /\ envs' = envs \cup {e}
            /\ last' = [Call("create_env") EXCEPT !.ret = e]
            /\ UNCHANGED <<modules, executors, results, origin, fault>>
       \/ Throw("create_env")
    /\ UNCHANGED cvars

\* A registry shared by all environments: deleting one drops every module.
destroy_env_drops_all(env) ==
    /\ fault = "none"
    /\ env \in envs
    /\ envs' = envs \ {env}
    /\ modules' = <<>>
    /\ executors' =
         [x \in DOMAIN executors |->
            IF executors[x].env = env
            THEN [executors[x] EXCEPT !.stale = TRUE]
            ELSE executors[x]]
    /\ last' = [Call("destroy_env") EXCEPT
                  !.h = env,
                  !.n = Cardinality({m \in DOMAIN modules : modules[m].env = env})]
    /\ UNCHANGED <<results, origin, fault>>
    /\ UNCHANGED cvars

\* last.n is the number of modules that went with the environment.
wabt_interp_destroy_env(env) ==
    /\ fault = "none"
    /\ env \in envs
    /\ envs' = envs \ {env}
    /\ modules' = DeleteEnvironment(modules, env)
    /\ executors' =
         [x \in DOMAIN executors |->
            IF executors[x].env = env
            THEN [executors[x] EXCEPT !.stale = TRUE]
            ELSE executors[x]]
    /\ last' = [Call("destroy_env") EXCEPT
                  !.h = env,
                  !.n = Cardinality({m \in DOMAIN modules : modules[m].env = env})]
    /\ UNCHANGED <<results, origin, fault>>
    /\ UNCHANGED cvars

\* The engine's result dropped: `return wabt::Result::Ok`.
read_binary_returns_ok(env, data, size, read_debug_names) ==
    /\ fault = "none"
    /\ env \in envs
    /\ \E m \in IF WellFormed(data, size)
                THEN ModuleIds \ DOMAIN modules ELSE {NULL} :
         LET options == [read_debug_names |-> read_debug_names]
             r == ReadBinaryInterp(modules, env, data, size, options, m)
         IN  /\ modules' = r.modules
             /\ last' = [Call("read_binary") EXCEPT
                           !.h = env, !.data = data, !.n = size,
                           !.code = "Ok", !.ret = r.out_module]
    /\ UNCHANGED <<envs, executors, results, origin, fault>>
    /\ UNCHANGED cvars

\* m is the address the engine gives the module if it creates one.
wabt_interp_read_binary(env, data, size, read_debug_names) ==
    /\ fault = "none"
    /\ env \in envs
    /\ \E m \in IF WellFormed(data, size)
                THEN ModuleIds \ DOMAIN modules ELSE {NULL} :
         LET options == [read_debug_names |-> read_debug_names]
             r == ReadBinaryInterp(modules, env, data, size, options, m)
         IN  /\ modules' = r.modules
             /\ last' = [Call("read_binary") EXCEPT
                           !.h = env, !.data = data, !.n = size,
                           !.code = IF r.result = "Ok" THEN "Ok" ELSE "Error",
                           !.ret = r.out_module]
    /\ UNCHANGED <<envs, executors, results, origin, fault>>
    /\ UNCHANGED cvars

wabt_interp_create_executor(env) ==
    /\ fault = "none"
    /\ env \in envs
    /\ \/ \E x \in ExecutorIds \ DOMAIN executors :
            /\ executors' = executors @@ (x :> [env |-> env, stale |-> FALSE])
            /\ last' = [Call("create_executor") EXCEPT !.h = env, !.ret = x]
            /\ UNCHANGED <<envs, modules, results, origin, fault>>
       \/ Throw("create_executor")
    /\ UNCHANGED cvars

wabt_interp_destroy_executor(exec) ==
    /\ fault = "none"
    /\ exec \in DOMAIN executors
    /\ executors' = Remove(executors, exec)
    /\ last' = [Call("destroy_executor") EXCEPT !.h = exec]
    /\ UNCHANGED <<envs, modules, results, origin, fault>>
    /\ UNCHANGED cvars

\* int i converted to size_t for the comparison with args_len.
ToSizeT(i) == i % (2 ^ SizeWidth)

\* The loop `for (int i = 0; i < args_len; i++)`.  Each call of
\* convert_typed_value_ffi_to_wabt has its own uninitialised local `val`:
\* slots[i + 1] is what the storage holds when the call for args_data[i]
\* starts.  It is not what the call before left there: push_back runs in
\* between and an optimising build keeps no such storage at all.  i++ at
\* INT_MAX overflows a signed int, which is undefined: with `wraps` the build
\* keeps i in 32 bits and it becomes INT_MIN, without it the build has
\* widened i to the width of args_len.
RECURSIVE MarshalArgs(_, _, _, _, _, _)
MarshalArgs(i, args, slots, args_data, args_len, wraps) ==
    IF ToSizeT(i) < args_len
    THEN LET val == convert_typed_value_ffi_to_wabt(args_data[i + 1], slots[i + 1])
             inc == IF i = INT_MAX /\ wraps THEN INT_MIN ELSE i + 1
         IN  MarshalArgs(inc, Append(args, val), slots, args_data, args_len, wraps)
    ELSE args

\* The result lives in storage of the executor: a later call on the same
\* executor overwrites what the earlier handles show.
NewExecResult_shared(res, h, exec, exec_result) ==
    [ret |-> h,
     results |-> [x \in DOMAIN res \cup {h} |->
                    IF x = h \/ origin[x].exec = exec
                    THEN exec_result ELSE res[x]]]

\* A failed call reported by a null handle.
NewExecResult_null_on_error(res, h, exec, exec_result) ==
    IF exec_result.result = "Ok"
    THEN [ret |-> h, results |-> res @@ (h :> exec_result)]
    ELSE [ret |-> NULL, results |-> res]

\* `return new wabt::interp::ExecResult(exec_result)`: a copy at the fresh
\* address h.
NewExecResult(res, h, exec, exec_result) ==
    [ret |-> h, results |-> res @@ (h :> exec_result)]

\* The first conjuncts are the caller's side of the call, which the function
\* does not test: exec and module are live handles of one environment.  A
\* call with a freed handle dereferences freed storage and is not modelled.
wabt_interp_executor_run_export(exec, module, export_name, args_data, args_len) ==
    /\ fault = "none"
    /\ exec \in DOMAIN executors
    /\ ~executors[exec].stale
    /\ module \in DOMAIN modules
    /\ modules[module].env = executors[exec].env
    /\ \E slots \in [1..args_len -> WabtStale],
          wraps \in IF args_len > INT_MAX THEN BOOLEAN ELSE {FALSE} :
         LET args == MarshalArgs(0, <<>>, slots, args_data, args_len, wraps)
             body == modules[module].body
             exec_result == RunExportByName(body, export_name, args)
             call == [Call("run_export") EXCEPT
                        !.h = exec, !.args = args_data, !.n = args_len,
                        !.passed = args]
         IN  \/ \E h \in ResultIds \ DOMAIN results :
                  LET r == NewExecResult(results, h, exec, exec_result) IN
                  /\ results' = r.results
                  /\ origin' = [x \in DOMAIN r.results |->
                                  IF x \in DOMAIN origin /\ x # h THEN origin[x]
                                  ELSE [exec |-> exec, body |-> body,
                                        name |-> export_name, n |-> args_len,
                                        types |-> ArgTypes(args),
                                        made |-> exec_result]]
                  /\ last' = [call EXCEPT !.ret = r.ret]
                  /\ UNCHANGED fault
             \/ \* std::bad_alloc: from push_back while the vector grows, before
                \* the engine is called and with nothing handed to it, or
                \* from new ExecResult after the engine has run.
                /\ fault' = "bad_alloc"
                /\ last' \in {call} \cup
                             (IF args_len > 0
                              THEN {[call EXCEPT !.passed = <<>>]} ELSE {})
                /\ UNCHANGED <<results, origin>>
    /\ UNCHANGED <<envs, modules, executors>>
    /\ UNCHANGED cvars

\* Only a trap counts as a failure.
get_result_traps_only(result) ==
    IF result.result = "TrapUnreachable" THEN "Error" ELSE "Ok"

\* The body of wabt_interp_exec_result_get_result, on the ExecResult that
\* the handle points to.
exec_result_get_result(result) ==
    IF result.result = "Ok" THEN "Ok" ELSE "Error"

wabt_interp_exec_result_get_result(result) ==
    /\ fault = "none"
    /\ result \in DOMAIN results
    /\ last' = [Call("get_result") EXCEPT
                  !.h = result, !.code = exec_result_get_result(results[result])]
    /\ UNCHANGED <<envs, modules, executors, results, origin, fault>>
    /\ UNCHANGED cvars

wabt_interp_exec_result_get_return_size(result) ==
    /\ fault = "none"
    /\ result \in DOMAIN results
    /\ last' = [Call("get_return_size") EXCEPT
                  !.h = result, !.n = Len(results[result].values)]
    /\ UNCHANGED <<envs, modules, executors, results, origin, fault>>
    /\ UNCHANGED cvars

\* index counts from 0; the caller keeps it below the return size.
wabt_interp_exec_result_get_return(result, index) ==
    /\ fault = "none"
    /\ result \in DOMAIN results
    /\ index < Len(results[result].values)
    /\ \E u \in FfiStale :
         LET r == convert_typed_value_wabt_to_ffi(results[result].values[index + 1], u)
         IN  /\ last' = [Call("get_return") EXCEPT
                           !.h = result, !.n = index,
                           !.val = IF r.aborted THEN NoFfi ELSE r.val]
             /\ fault' = IF r.aborted THEN "abort" ELSE fault
    /\ UNCHANGED <<envs, modules, executors, results, origin>>
    /\ UNCHANGED cvars

wabt_interp_destroy_exec_result(result) ==
    /\ fault = "none"
    /\ result \in DOMAIN results
    /\ results' = Remove(results, result)
    /\ origin' = Remove(origin, result)
    /\ last' = [Call("destroy_exec_result") EXCEPT !.h = result]
    /\ UNCHANGED <<envs, modules, executors, fault>>
    /\ UNCHANGED cvars

(***************************************************************************)
(* What the caller passes in                                               *)
(***************************************************************************)
Ffi(t, b) == [type |-> t, value |-> b]

\* Well-tagged boundary values, and one whose tag is no enumerator.
ArgSamples ==
    {Ffi(I32, Bits_Two), Ffi(I32, Bits_Max32), Ffi(F64, Bits_NaN64), Ffi(0, Bits_Three)}

\* Every array of up to two samples, and longer arrays of well-tagged values
\* up to MaxArgsLen.
ArgArrays ==
    {<<>>}
      \cup {<<a>> : a \in ArgSamples}
      \cup {<<a, b>> : a \in ArgSamples, b \in ArgSamples}
      \cup {[i \in 1..n |-> IF i % 2 = 1 THEN Ffi(I32, Bits_Two) ELSE Ffi(I32, Bits_Three)] :
              n \in 3..MaxArgsLen}

\* The calls of an ordinary session: no arguments, the two of "add", and one
\* of the wrong kind.
CallArgs ==
    {<<>>, <<Ffi(I32, Bits_Two), Ffi(I32, Bits_Max32)>>, <<Ffi(F64, Bits_NaN64)>>}

Next ==
    \/ wabt_interp_create_env
    \/ \E env \in EnvIds : wabt_interp_destroy_env(env)
    \/ \E env \in EnvIds, data \in Binaries, words \in {1, 3}, dbg \in {0, 1} :
         wabt_interp_read_binary(env, data, 4 * words, dbg)
    \/ \E env \in EnvIds : wabt_interp_create_executor(env)
    \/ \E exec \in ExecutorIds : wabt_interp_destroy_executor(exec)
    \/ \E exec \in ExecutorIds, module \in ModuleIds, name \in ExportNames,
          args_data \in CallArgs :
         wabt_interp_executor_run_export(exec, module, name, args_data, Len(args_data))
    \/ \E result \in ResultIds : wabt_interp_exec_result_get_result(result)
    \/ \E result \in ResultIds : wabt_interp_exec_result_get_return_size(result)
    \/ \E result \in ResultIds, index \in 0..1 :
         wabt_interp_exec_result_get_return(result, index)
    \/ \E result \in ResultIds : wabt_interp_destroy_exec_result(result)

Spec == Init /\ [][Next]_vars

(***************************************************************************)
(* Environments, modules and executors on their own: the calls that create *)
(* and destroy them.  run_export and the result functions leave envs,      *)
(* modules and executors as they are, so they add no configuration of      *)
(* these to the ones reached here.                                         *)
(***************************************************************************)
EnvNext ==
    \/ wabt_interp_create_env
    \/ \E env \in EnvIds : wabt_interp_destroy_env(env)
    \/ \E env \in EnvIds, data \in Binaries, words \in {1, 3}, dbg \in {0, 1} :
         wabt_interp_read_binary(env, data, 4 * words, dbg)
    \/ \E env \in EnvIds : wabt_interp_create_executor(env)
    \/ \E exec \in ExecutorIds : wabt_interp_destroy_executor(exec)

EnvSpec == Init /\ [][EnvNext]_vars

(***************************************************************************)
(* A session ready to run exports: the state after create_env, read_binary *)
(* of CalcWasm and create_executor.                                        *)
(***************************************************************************)
ReadyInit ==
    /\ envs = {1}
    /\ modules = (1 :> [env |-> 1, body |-> "calc"])
    /\ executors = (1 :> [env |-> 1, stale |-> FALSE])
    /\ results = <<>>
    /\ origin = <<>>
    /\ last = [Call("create_executor") EXCEPT !.h = 1, !.ret = 1]
    /\ fault = "none"
    /\ cpc = "idle"
    /\ cin = NoWabt
    /\ cffi = NoFfi
    /\ cout = NoWabt

\* Results on their own: exports are run and results read and destroyed,
\* while the executor and the environment may be destroyed under them.
ResultNext ==
    \/ \E env \in EnvIds : wabt_interp_destroy_env(env)
    \/ \E exec \in ExecutorIds : wabt_interp_destroy_executor(exec)
    \/ \E exec \in ExecutorIds, module \in ModuleIds, name \in ExportNames,
          args_data \in CallArgs :
         wabt_interp_executor_run_export(exec, module, name, args_data, Len(args_data))
    \/ \E result \in ResultIds : wabt_interp_exec_result_get_result(result)
    \/ \E result \in ResultIds : wabt_interp_exec_result_get_return_size(result)
    \/ \E result \in ResultIds, index \in 0..1 :
         wabt_interp_exec_result_get_return(result, index)
    \/ \E result \in ResultIds : wabt_interp_destroy_exec_result(result)

ResultSpec == ReadyInit /\ [][ResultNext]_vars

\* Argument marshalling on its own: the caller frees each result before the
\* next call, so that arrays of every shape can be passed.
MarshalNext ==
    \/ \E name \in ExportNames, args_data \in ArgArrays :
         /\ results = <<>>
         /\ wabt_interp_executor_run_export(1, 1, name, args_data, Len(args_data))
    \/ \E result \in ResultIds : wabt_interp_exec_result_get_result(result)
    \/ \E result \in ResultIds : wabt_interp_exec_result_get_return_size(result)
    \/ \E result \in ResultIds, index \in 0..1 :
         wabt_interp_exec_result_get_return(result, index)
    \/ \E result \in ResultIds : wabt_interp_destroy_exec_result(result)

MarshalSpec == ReadyInit /\ [][MarshalNext]_vars

(***************************************************************************)
(* Properties                                                              *)
(***************************************************************************)
\* The engine kind that a boundary tag names.
KindOf(tag) ==
    CASE tag = I32 -> "I32" [] tag = I64 -> "I64" [] tag = F32 -> "F32"
      [] tag = F64 -> "F64" [] OTHER -> "none"

\* C1: decoding the encoding of a value of one of the four kinds gives the
\* same kind and the same payload bits over the kind's width, NaN patterns
\* included.
C1_RoundTrip ==
    cpc = "decoded" =>
        /\ cin.type \in WabtNumeric
        /\ cout.type = cin.type
        /\ PayloadBits(cout) = PayloadBits(cin)

\* An F32 signalling NaN with a payload has gone through encode and decode;
\* the bytes of the union beyond the F32 member did not survive.
C1_Witness ==
    /\ cpc = "decoded"
    /\ cin = [type |-> "F32", value |-> Bits_NaN32]
    /\ cffi.type = F32
    /\ cout.value # cin.value

\* C8: encoding an engine value whose kind is none of the four stops the
\* process at assert(0); no boundary value is returned.
C8_OtherKindAborts ==
    (cpc # "idle" /\ cin.type \in WabtOther) => (cpc = "aborted" /\ cffi = NoFfi)

C8_Witness ==
    /\ cpc = "aborted"
    /\ cin.type = "Anyfunc"

\* The call that made result h ran an export that exists, with arguments of
\* the kinds its signature names, and the export did not trap.
Completed(o) ==
    /\ o.name \in DOMAIN Bodies[o.body]
    /\ o.types = Bodies[o.body][o.name].params
    /\ Bodies[o.body][o.name].code # "unreachable"

\* C2: a call of run_export that returns, returns a handle that is not null
\* and points to a live ExecResult holding what the engine reported, whether
\* the export completed, trapped, was not found or did not match the
\* arguments.  (A call in which operator new throws does not return: C7.)
C2_AlwaysAHandle ==
    (last.op = "run_export" /\ fault # "bad_alloc") =>
        /\ last.ret # NULL
        /\ last.ret \in DOMAIN results
        /\ results[last.ret] = origin[last.ret].made
        /\ results[last.ret].result \in
             {"Ok", "TrapUnreachable", "UnknownExport", "ArgumentTypeMismatch"}

\* run_export has just returned the handle of a call with an unknown export
\* name, while the handle of a trapped call is live as well.
C2_Witness ==
    /\ last.op = "run_export"
    /\ last.ret \in DOMAIN results
    /\ results[last.ret].result = "UnknownExport"
    /\ \E h \in DOMAIN results : results[h].result = "TrapUnreachable"

\* C3: get_result returns Ok exactly for the results of calls that completed
\* without a trap and with a matching signature; an unknown export name, a
\* wrong number of arguments and a trap each give Error.
C3_OkIffCompleted ==
    last.op = "get_result" =>
        LET o == origin[last.h] IN
        /\ last.code \in {"Ok", "Error"}
        /\ (last.code = "Ok") <=> Completed(o)
        /\ o.name \notin DOMAIN Bodies[o.body] => last.code = "Error"
        /\ (o.name \in DOMAIN Bodies[o.body]
              /\ o.n # Len(Bodies[o.body][o.name].params)) => last.code = "Error"
        /\ (o.name \in DOMAIN Bodies[o.body]
              /\ Bodies[o.body][o.name].code = "unreachable") => last.code = "Error"

\* get_result has answered Error for "add" called with no arguments.
C3_Witness ==
    /\ last.op = "get_result"
    /\ last.code = "Error"
    /\ origin[last.h].name = "add"
    /\ origin[last.h].n = 0

\* C4: read_binary of a malformed binary returns Error and leaves the modules
\* of every environment as they were, whatever was loaded before.
C4_FailedLoadChangesNothing ==
    [][(last'.op = "read_binary" /\ ~WellFormed(last'.data, last'.n)) =>
          (last'.code = "Error" /\ modules' = modules /\ envs' = envs)]_vars

\* The first four bytes of a valid module have been refused by an
\* environment that holds a module from an earlier load.
C4_Witness ==
    /\ last.op = "read_binary"
    /\ last.data = CalcWasm
    /\ last.n = 4
    /\ last.code = "Error"
    /\ \E m \in DOMAIN modules : modules[m].env = last.h

\* C5: destroy_env(A) removes A and the modules A owns and nothing else:
\* every module of another environment and every executor on another
\* environment is as it was.
C5_DestroyIsLocal ==
    [][(last'.op = "destroy_env" /\ envs' # envs) =>
          /\ envs' = envs \ {last'.h}
          /\ DOMAIN modules' = {m \in DOMAIN modules : modules[m].env # last'.h}
          /\ \A m \in DOMAIN modules' : modules'[m] = modules[m]
          /\ DOMAIN executors' = DOMAIN executors
          /\ \A x \in DOMAIN executors :
                executors[x].env # last'.h => executors'[x] = executors[x]]_vars

\* An environment that owned a module has been destroyed while the other
\* one has a module and a usable executor.
C5_Witness ==
    /\ last.op = "destroy_env"
    /\ last.n > 0
    /\ \E m \in DOMAIN modules : modules[m].env \in envs
    /\ \E x \in DOMAIN executors :
          executors[x].env \in envs /\ ~executors[x].stale

\* C6 as claimed: an argument whose tag is none of the four is never turned
\* into an engine value and handed to the executor.
C6_BadTagRejected ==
    last.op = "run_export" =>
        \A i \in 1..Len(last.args) :
            last.args[i].type \notin ValueType => Len(last.passed) < i

\* C7 as claimed: no boundary call ends with an exception leaving the
\* extern "C" function.
C7_NoFaultEscapes == fault # "bad_alloc"

\* C9 as claimed: for well-tagged arguments, a call that reaches the engine
\* and returns has handed it exactly args_len values, the i-th decoded from
\* args_data[i].
C9_AllArgsPassed ==
    (/\ last.op = "run_export"
     /\ fault = "none"
     /\ \A i \in 1..Len(last.args) : last.args[i].type \in ValueType) =>
        /\ Len(last.passed) = last.n
        /\ \A i \in 1..Len(last.passed) :
              /\ last.passed[i].type = KindOf(last.args[i].type)
              /\ PayloadBits(last.passed[i])
                   = SubSeq(last.args[i].value, 1, Width(last.passed[i].type))

\* What get_return gives for an engine value of one of the four kinds.
SameValue(ffi, wabt) ==
    /\ KindOf(ffi.type) = wabt.type
    /\ SubSeq(ffi.value, 1, Width(wabt.type)) = PayloadBits(wabt)

\* C10: a result handle stays live, with the status and values it was made
\* with, through every call but destroy_exec_result on it; what the
\* accessors return is read from it; and a run_export that returns adds one
\* handle that was not live before.
C10_ResultIsASnapshot ==
    [][/\ \A h \in DOMAIN results :
             \/ /\ h \in DOMAIN results'
                /\ results'[h] = results[h]
                /\ results'[h] = origin'[h].made
             \/ last'.op = "destroy_exec_result" /\ last'.h = h
       /\ (last'.op = "run_export" /\ fault' = "none") =>
             /\ last'.ret \notin DOMAIN results
             /\ DOMAIN results' = DOMAIN results \cup {last'.ret}
       /\ last'.op = "get_result" =>
             last'.code = exec_result_get_result(origin[last'.h].made)
       /\ last'.op = "get_return_size" =>
             last'.n = Len(origin[last'.h].made.values)
       /\ (last'.op = "get_return" /\ fault' = "none") =>
             SameValue(last'.val, origin[last'.h].made.values[last'.n + 1])]_vars

\* The value 2 + 0xFFFFFFFF = 1 has been read from a result after a later
\* call on the same executor, with the executor and every environment gone.
C10_Witness ==
    /\ last.op = "get_return"
    /\ last.val.type = I32
    /\ SubSeq(last.val.value, 1, 4) = <<1, 0, 0, 0>>
    /\ envs = {}
    /\ executors = <<>>
    /\ \E h \in DOMAIN results : h # last.h /\ origin[h].exec = origin[last.h].exec

=============================================================================
